---- MODULE Spec2Model ----
(***************************************************************************)
(* Model of app_immo.py: a Streamlit script that loads the commune          *)
(* directory from the remote table Dim_ville by range pagination, lets the  *)
(* user select a commune, then fetches its detail row and its transactions  *)
(* and derives the display metrics.                                         *)
(*                                                                          *)
(* Text values are sequences of one-character strings, so that length,      *)
(* padding and concatenation are computed and not assumed.                   *)
(***************************************************************************)
EXTENDS Integers, Sequences, FiniteSets, TLC

(***************************************************************************)
(* Bounds of the exploration.                                               *)
(***************************************************************************)
\* PAGE_SIZE is 1000 in the code (line 66).  The loop reads it only in the
\* range arithmetic and in the comparison with the page length, so the model
\* explores every page size 1..MaxPageSize against tables of 0..MaxRows rows.
MaxPageSize == 2
MaxRows == 4
\* number of executions of the script (the first run and the reruns)
MaxRuns == 2
\* rows of Dim_ville in the runs that go on to the dashboard
MaxDashRows == 1
\* rows the store returns to get_transactions
MaxTx == 3

\* ttl of st.cache_data on get_villes_list, in seconds
TTL == 3600

(***************************************************************************)
(* Text helpers.                                                            *)
(***************************************************************************)
DigitChar == <<"0", "1", "2", "3", "4", "5", "6", "7", "8", "9">>

IsDigit(c) == \E i \in 1..10 : DigitChar[i] = c

RECURSIVE StrNat(_)
StrNat(n) ==
  IF n < 10 THEN <<DigitChar[n + 1]>>
  ELSE StrNat(n \div 10) \o <<DigitChar[(n % 10) + 1]>>

\* Python str() of a JSON value received from the store: text stays as it
\* is, an integer becomes its decimal digits, null (None) becomes "None".
PyStr(v) ==
  IF v.t = "str" THEN v.s
  ELSE IF v.t = "null" THEN <<"N", "o", "n", "e">>
  ELSE IF v.n < 0 THEN <<"-">> \o StrNat(0 - v.n)
  ELSE StrNat(v.n)

RECURSIVE Zeros(_)
Zeros(k) == IF k <= 0 THEN <<>> ELSE <<"0">> \o Zeros(k - 1)

\* str.zfill(width): text of width characters or more is returned unchanged;
\* shorter text is left-padded with zeros, after the sign if there is one.
zfill(s, width) ==
  IF Len(s) >= width THEN s
  ELSE IF Len(s) > 0 /\ Head(s) \in {"+", "-"}
       THEN <<Head(s)>> \o Zeros(width - Len(s)) \o Tail(s)
       ELSE Zeros(width - Len(s)) \o s

TxtStr(s) == [t |-> "str", s |-> s]
TxtInt(n) == [t |-> "int", n |-> n]
Null == [t |-> "null"]

\* code points of the characters that occur in the pools
CharCode(c) ==
  CASE c = " " -> 32 [] c = "(" -> 40 [] c = ")" -> 41
    [] c = "," -> 44 [] c = "-" -> 45 [] c = "." -> 46 [] c = "/" -> 47
    [] c = "A" -> 65 [] c = "B" -> 66 [] c = "C" -> 67
    [] c = "a" -> 97 [] c = "b" -> 98 [] c = "c" -> 99 [] c = "n" -> 110
    [] OTHER -> IF IsDigit(c) THEN 48 + (CHOOSE i \in 0..9 : DigitChar[i + 1] = c)
                ELSE 127

\* Python's order on str: lexicographic by code point
RECURSIVE StrLeq(_, _)
StrLeq(a, b) ==
  IF a = <<>> THEN TRUE
  ELSE IF b = <<>> THEN FALSE
  ELSE IF Head(a) = Head(b) THEN StrLeq(Tail(a), Tail(b))
  ELSE CharCode(Head(a)) < CharCode(Head(b))

(***************************************************************************)
(* Numbers.  The floats of the script are modelled as exact fractions       *)
(* [n, d] in lowest terms, d > 0.                                           *)
(***************************************************************************)
Abs(x) == IF x < 0 THEN 0 - x ELSE x

RECURSIVE Gcd(_, _)
Gcd(a, b) == IF b = 0 THEN a ELSE Gcd(b, a % b)

Rat(n, d) ==
  LET g == Gcd(Abs(n), Abs(d))
      sgn == IF d < 0 THEN 0 - 1 ELSE 1
  IN [n |-> (sgn * n) \div g, d |-> (sgn * d) \div g]

RatInt(n) == [n |-> n, d |-> 1]
RatZero == RatInt(0)
RatAdd(a, b) == Rat(a.n * b.d + b.n * a.d, a.d * b.d)
RatMul(a, b) == Rat(a.n * b.n, a.d * b.d)
\* defined for b # 0 only
RatDiv(a, b) == Rat(a.n * b.d, a.d * b.n)
RatLt(a, b) == a.n * b.d < b.n * a.d
RatLeq(a, b) == a.n * b.d <= b.n * a.d

\* a parsed value, or the missing value (NaN, NaT)
Missing == [ok |-> FALSE]
Parsed(v) == [ok |-> TRUE, val |-> v]

AllDigits(s) == \A i \in 1..Len(s) : IsDigit(s[i])

DigitValue(c) == CHOOSE i \in 0..9 : DigitChar[i + 1] = c

RECURSIVE ParseDigits(_)
ParseDigits(s) ==
  IF s = <<>> THEN 0
  ELSE 10 * ParseDigits(SubSeq(s, 1, Len(s) - 1)) + DigitValue(s[Len(s)])

RECURSIVE Pow10(_)
Pow10(k) == IF k = 0 THEN 1 ELSE 10 * Pow10(k - 1)

\* Decimal text "ddd", "ddd.ddd", "ddd." or ".ddd" read as a number; any
\* other text of the pools is not a number.
ParseFloat(s) ==
  LET dots == { i \in 1..Len(s) : s[i] = "." }
  IN IF dots = {}
     THEN IF s # <<>> /\ AllDigits(s) THEN Parsed(RatInt(ParseDigits(s))) ELSE Missing
     ELSE IF Cardinality(dots) > 1 THEN Missing
     ELSE LET p == CHOOSE i \in dots : TRUE
              ip == SubSeq(s, 1, p - 1)
              fp == SubSeq(s, p + 1, Len(s))
          IN IF AllDigits(ip) /\ AllDigits(fp) /\ Len(ip) + Len(fp) > 0
             THEN Parsed(Rat(ParseDigits(ip) * Pow10(Len(fp)) + ParseDigits(fp),
                             Pow10(Len(fp))))
             ELSE Missing

\* value_str.replace(',', '.'), line 220
ReplaceComma(s) == [i \in 1..Len(s) |-> IF s[i] = "," THEN "." ELSE s[i]]

\* convert_loyer_to_float (lines 208-226): None and text that is not a
\* number give 0.0
convert_loyer_to_float(raw_value) ==
  IF raw_value.t = "null" THEN RatZero
  ELSE LET f == ParseFloat(ReplaceComma(PyStr(raw_value)))
       IN IF f.ok THEN f.val ELSE RatZero

\* pd.to_numeric(..., errors='coerce') on one value
to_numeric(v) ==
  IF v.t = "int" THEN Parsed(RatInt(v.n))
  ELSE IF v.t = "null" THEN Missing
  ELSE ParseFloat(v.s)

IsLeap(y) == (y % 4 = 0 /\ y % 100 # 0) \/ y % 400 = 0

DaysIn(y, m) ==
  IF m = 2 THEN (IF IsLeap(y) THEN 29 ELSE 28)
  ELSE IF m \in {4, 6, 9, 11} THEN 30 ELSE 31

\* pd.to_datetime(..., errors='coerce') on one value: text "YYYY-MM-DD" naming
\* a day of the calendar gives a date, null and the other text of the pools
\* give NaT
to_datetime(v) ==
  IF v.t # "str" THEN Missing
  ELSE LET s == v.s
       IN IF /\ Len(s) = 10
             /\ s[5] = "-" /\ s[8] = "-"
             /\ AllDigits(SubSeq(s, 1, 4))
             /\ AllDigits(SubSeq(s, 6, 7))
             /\ AllDigits(SubSeq(s, 9, 10))
          THEN LET y == ParseDigits(SubSeq(s, 1, 4))
                   m == ParseDigits(SubSeq(s, 6, 7))
                   d == ParseDigits(SubSeq(s, 9, 10))
               IN IF m \in 1..12 /\ d \in 1..DaysIn(y, m)
                  THEN Parsed([year |-> y, month |-> m, day |-> d])
                  ELSE Missing
          ELSE Missing

(***************************************************************************)
(* The remote table Dim_ville and the values it can hold.                   *)
(***************************************************************************)
JoinColumn == "code_postal"

NameA == <<"A">>
NameB == <<"B">>

Chars5(a, b, c, d, e) == <<a, b, c, d, e>>

\* Rows of Dim_ville as the store returns them (JSON): a column of the store
\* is text or numeric, so a value is text, a number or null.  The text rows
\* hold a well-formed code, a code that needs padding, the same code already
\* padded (same label once normalized) and a code of more than five
\* characters; the numeric rows hold a code that needs padding and a
\* five-digit one.  loypredm2 is the rent column read by the dashboard.
TextRows ==
  { [nom_commune |-> NameA, code_postal |-> TxtStr(Chars5("7", "5", "0", "0", "1")),
     code_insee |-> TxtStr(Chars5("7", "5", "1", "0", "1")),
     loypredm2 |-> TxtStr(<<"1", "2", ",", "5">>)],
    [nom_commune |-> NameA, code_postal |-> TxtStr(<<"7", "5", "0">>),
     code_insee |-> TxtStr(<<"1", "0", "0", "1">>),
     loypredm2 |-> Null],
    [nom_commune |-> NameA, code_postal |-> TxtStr(Chars5("0", "0", "7", "5", "0")),
     code_insee |-> TxtStr(Chars5("0", "1", "0", "0", "2")),
     loypredm2 |-> TxtStr(<<"a", "b", "c">>)],
    [nom_commune |-> NameB, code_postal |-> TxtStr(<<"7", "5", "0", "0", "0", "1">>),
     code_insee |-> TxtStr(Chars5("7", "5", "1", "0", "1")),
     loypredm2 |-> TxtStr(<<"1", "0">>)] }

NumericRows ==
  { [nom_commune |-> NameA, code_postal |-> TxtInt(750),
     code_insee |-> TxtInt(1001), loypredm2 |-> TxtInt(10)],
    [nom_commune |-> NameB, code_postal |-> TxtInt(75001),
     code_insee |-> TxtInt(75101), loypredm2 |-> TxtInt(0)] }

SeqsUpTo(S, n) == UNION { [1..k -> S] : k \in 0..n }

\* the query orders by nom_commune ascending (line 78)
OrderedByName(rows) ==
  \A i \in 1..(Len(rows) - 1) : StrLeq(rows[i].nom_commune, rows[i + 1].nom_commune)

\* tables of at most n rows, in the order the store returns them; the code
\* columns of one table have one type
TablesUpTo(n) ==
  { t \in SeqsUpTo(TextRows, n) \cup SeqsUpTo(NumericRows, n) : OrderedByName(t) }

Tables == TablesUpTo(MaxRows)

Min(a, b) == IF a <= b THEN a ELSE b

\* .select('code_insee, code_postal, nom_commune'), line 77
SelectVilles(rows) ==
  [i \in 1..Len(rows) |->
     [code_insee |-> rows[i].code_insee, code_postal |-> rows[i].code_postal,
      nom_commune |-> rows[i].nom_commune]]

\* .range(from, to): both ends inclusive, rows counted from 0
RangeRows(rows, from, to) ==
  IF from >= Len(rows) \/ to < from THEN <<>>
  ELSE SubSeq(rows, from + 1, Min(to + 1, Len(rows)))

(***************************************************************************)
(* get_villes_list, after the loop: normalization, labels, deduplication,   *)
(* sort (lines 105-125).                                                    *)
(***************************************************************************)
Label(nom, key) == nom \o <<" ", "(">> \o key \o <<")">>

NormalizeRow(r) ==
  LET key == zfill(PyStr(r[JoinColumn]), 5)
  IN [nom_commune |-> r.nom_commune,
      code_postal |-> key,
      code_insee |-> zfill(PyStr(r.code_insee), 5),
      label |-> Label(r.nom_commune, key)]

NormalizeRows(rows) == [i \in 1..Len(rows) |-> NormalizeRow(rows[i])]

\* faulty variant of DropDuplicates: the last row of each label is kept
RECURSIVE DropDuplicatesKeepLast(_, _)
DropDuplicatesKeepLast(rows, seen) ==
  IF rows = <<>> THEN <<>>
  ELSE IF \E i \in 2..Len(rows) : rows[i].label = Head(rows).label
       THEN DropDuplicatesKeepLast(Tail(rows), seen)
       ELSE <<Head(rows)>> \o DropDuplicatesKeepLast(Tail(rows), seen)

\* drop_duplicates(subset=['label']): the first row of each label is kept
RECURSIVE DropDuplicates(_, _)
DropDuplicates(rows, seen) ==
  IF rows = <<>> THEN <<>>
  ELSE IF Head(rows).label \in seen THEN DropDuplicates(Tail(rows), seen)
  ELSE <<Head(rows)>> \o DropDuplicates(Tail(rows), seen \cup {Head(rows).label})

\* insertion of r after the rows whose name is not greater
RECURSIVE InsertByName(_, _)
InsertByName(r, sorted) ==
  IF sorted = <<>> THEN <<r>>
  ELSE IF StrLeq(Head(sorted).nom_commune, r.nom_commune)
       THEN <<Head(sorted)>> \o InsertByName(r, Tail(sorted))
       ELSE <<r>> \o sorted

\* sort_values('nom_commune')
RECURSIVE SortValues(_)
SortValues(rows) ==
  IF rows = <<>> THEN <<>>
  ELSE InsertByName(rows[Len(rows)], SortValues(SubSeq(rows, 1, Len(rows) - 1)))

EmptyFrame == <<>>

\* the frame returned for the accumulated rows
VillesFrame(data) ==
  IF data = <<>> THEN EmptyFrame
  ELSE SortValues(DropDuplicates(NormalizeRows(data), {}))

\* the messages shown after the loop
VillesWarning(data) == IF data = <<>> THEN <<"warning_table_empty">> ELSE <<>>

(***************************************************************************)
(* The transaction rows the store can return, and their cleaning            *)
(* (get_transactions, lines 186-204).                                       *)
(***************************************************************************)
DateTxt(y, m, d) == TxtStr(y \o <<"-">> \o m \o <<"-">> \o d)

Y2023 == <<"2", "0", "2", "3">>
Y2024 == <<"2", "0", "2", "4">>

\* Rows of Fct_transaction_immo as the store returns them: 2000 and 3000 per
\* square metre (kept), a date that is no day of the calendar, a price and a
\* surface that are no numbers, and the two ends of the band, 500 and 30000
\* per square metre exactly.
TxPool ==
  { [date_mutation |-> DateTxt(Y2023, <<"0", "3">>, <<"0", "1">>),
     valeur_fonciere |-> TxtInt(100000), surface_reelle_bati |-> TxtInt(50)],
    [date_mutation |-> DateTxt(Y2024, <<"0", "6">>, <<"1", "5">>),
     valeur_fonciere |-> TxtStr(<<"9", "0", "0", "0", "0">>),
     surface_reelle_bati |-> TxtInt(30)],
    [date_mutation |-> DateTxt(Y2023, <<"0", "2">>, <<"3", "0">>),
     valeur_fonciere |-> TxtInt(200000), surface_reelle_bati |-> TxtInt(50)],
    [date_mutation |-> DateTxt(Y2024, <<"0", "1">>, <<"1", "0">>),
     valeur_fonciere |-> TxtStr(<<"a", "b", "c">>),
     surface_reelle_bati |-> TxtInt(40)],
    [date_mutation |-> Null,
     valeur_fonciere |-> TxtInt(120000),
     surface_reelle_bati |-> TxtStr(<<"n", "/", "a">>)],
    [date_mutation |-> DateTxt(Y2023, <<"0", "7">>, <<"0", "1">>),
     valeur_fonciere |-> TxtInt(10000), surface_reelle_bati |-> TxtInt(20)],
    [date_mutation |-> DateTxt(Y2024, <<"0", "9">>, <<"0", "1">>),
     valeur_fonciere |-> TxtInt(300000), surface_reelle_bati |-> TxtInt(10)] }

\* .gt(column, bound) as the store applies it: numerically on a number, as
\* text on text; null is never greater
RemoteGt(v, bound) ==
  IF v.t = "int" THEN v.n > bound
  ELSE IF v.t = "null" THEN FALSE
  ELSE ~StrLeq(v.s, StrNat(bound))

\* lines 174-175
ServerFilter(row) ==
  /\ RemoteGt(row.valeur_fonciere, 5000)
  /\ RemoteGt(row.surface_reelle_bati, 9)

\* what the store can answer to the query of get_transactions
TxResponses == { r \in SeqsUpTo(TxPool, MaxTx) : \A i \in 1..Len(r) : ServerFilter(r[i]) }

\* lines 192-194: the three columns converted, the row index kept
TypedRow(rows, i) ==
  [idx |-> i,
   date_mutation |-> to_datetime(rows[i].date_mutation),
   valeur_fonciere |-> to_numeric(rows[i].valeur_fonciere),
   surface_reelle_bati |-> to_numeric(rows[i].surface_reelle_bati)]

\* dropna(subset=[...]), line 196: the row has none of the three missing
NotNa(r) == r.date_mutation.ok /\ r.valeur_fonciere.ok /\ r.surface_reelle_bati.ok

\* float division of a column by a column: a zero divisor gives inf or NaN,
\* here the missing value
ColumnDiv(a, b) == IF b.n = 0 THEN Missing ELSE Parsed(RatDiv(a, b))

\* faulty variant of InBand: the ends of the band are kept
InBandInclusive(p) == p.ok /\ RatLeq(RatInt(500), p.val) /\ RatLeq(p.val, RatInt(30000))

\* line 202: (prix_m2 > 500) & (prix_m2 < 30000); false for inf and NaN
InBand(p) == p.ok /\ RatLt(RatInt(500), p.val) /\ RatLt(p.val, RatInt(30000))

\* line 199, on a row that passed dropna
WithPrice(r) ==
  [idx |-> r.idx,
   date_mutation |-> r.date_mutation.val,
   valeur_fonciere |-> r.valeur_fonciere.val,
   surface_reelle_bati |-> r.surface_reelle_bati.val,
   prix_m2 |-> ColumnDiv(r.valeur_fonciere.val, r.surface_reelle_bati.val)]

RECURSIVE CleanFrom(_, _)
CleanFrom(rows, i) ==
  IF i > Len(rows) THEN <<>>
  ELSE LET r == TypedRow(rows, i)
       IN IF NotNa(r) /\ InBand(WithPrice(r).prix_m2)
          THEN <<[WithPrice(r) EXCEPT !.prix_m2 = WithPrice(r).prix_m2.val]>>
                 \o CleanFrom(rows, i + 1)
          ELSE CleanFrom(rows, i + 1)

\* lines 186-204
CleanTransactions(rows) == IF rows = <<>> THEN EmptyFrame ELSE CleanFrom(rows, 1)

(***************************************************************************)
(* The detail query (get_city_data_full, lines 127-153).                    *)
(***************************************************************************)
None == [some |-> FALSE]
Some(r) == [some |-> TRUE, row |-> r]

\* .eq(column, text) as the store applies it: text is compared as it is, a
\* number with the number the text denotes
RemoteEq(v, key) ==
  IF v.t = "str" THEN v.s = key
  ELSE IF v.t = "int" THEN AllDigits(key) /\ key # <<>> /\ ParseDigits(key) = v.n
  ELSE FALSE

RECURSIVE RowsWhereEq(_, _)
RowsWhereEq(rows, key) ==
  IF rows = <<>> THEN <<>>
  ELSE IF RemoteEq(Head(rows)[JoinColumn], key)
       THEN <<Head(rows)>> \o RowsWhereEq(Tail(rows), key)
       ELSE RowsWhereEq(Tail(rows), key)

\* lines 138 and 164: str(join_key_value).zfill(5)
JoinKeyStr(key) == zfill(key, 5)

\* lines 146-148 and 153: the first row, or None
FirstOrNone(rows) == IF rows # <<>> THEN Some(rows[1]) ELSE None

(***************************************************************************)
(* Metrics (lines 352-383).                                                 *)
(***************************************************************************)
RECURSIVE InsertSorted(_, _)
InsertSorted(x, sorted) ==
  IF sorted = <<>> THEN <<x>>
  ELSE IF RatLeq(Head(sorted), x) THEN <<Head(sorted)>> \o InsertSorted(x, Tail(sorted))
  ELSE <<x>> \o sorted

RECURSIVE SortRats(_)
SortRats(xs) == IF xs = <<>> THEN <<>> ELSE InsertSorted(Head(xs), SortRats(Tail(xs)))

\* Series.median(): the middle value, or the mean of the two middle values
Median(xs) ==
  LET srt == SortRats(xs)
      n == Len(xs)
  IN IF n % 2 = 1 THEN srt[(n + 1) \div 2]
     ELSE RatMul(RatAdd(srt[n \div 2], srt[(n \div 2) + 1]), Rat(1, 2))

\* lines 352-353: the median of prix_m2, 0.0 for the empty frame
prix_m2_achat_of(df) ==
  IF df # EmptyFrame THEN Median([i \in 1..Len(df) |-> df[i].prix_m2]) ELSE RatZero

\* line 367
loyer_m2_all_of(info) ==
  IF info.some THEN convert_loyer_to_float(info.row.loypredm2) ELSE RatZero

\* float division in Python: a zero divisor raises ZeroDivisionError
PyDiv(a, b) == IF b.n = 0 THEN Missing ELSE Parsed(RatDiv(a, b))

\* faulty variant of renta_brute_of: the division is done without the test
renta_brute_unguarded(prix, loyer) ==
  LET q == PyDiv(RatMul(loyer, RatInt(12)), prix)
  IN IF q.ok THEN Parsed(RatMul(q.val, RatInt(100))) ELSE Missing

\* lines 381-383; Missing stands for the ZeroDivisionError
renta_brute_of(prix, loyer) ==
  IF RatLt(RatZero, prix) /\ RatLt(RatZero, loyer)
  THEN LET q == PyDiv(RatMul(loyer, RatInt(12)), prix)
       IN IF q.ok THEN Parsed(RatMul(q.val, RatInt(100))) ELSE Missing
  ELSE Parsed(RatZero)

(***************************************************************************)
(* State.                                                                   *)
(***************************************************************************)
VARIABLES
  secrets,        \* st.secrets: SUPABASE_URL and SUPABASE_KEY
  supabase,       \* the module-level client: "unset", "none" or "client"
  table,          \* rows of Dim_ville in the remote store, in name order
  PAGE_SIZE,      \* page size of the loader
  pc,             \* position of the script
  now,            \* clock, seconds
  runs,           \* executions of the script so far
  cache,          \* st.cache_data entry of get_villes_list
  call,           \* how the last call of get_villes_list was served
  offset,         \* get_villes_list: offset of the next page
  all_data,       \* get_villes_list: rows accumulated
  requests,       \* page requests issued by the current call, in order
  ui,             \* messages shown by the current run, in order
  df_villes,      \* frame returned by get_villes_list
  selected_label, \* label chosen in the selectbox
  join_key_value, \* join key of the selected row
  detail,         \* last call of get_city_data_full: outcome and what it gave
  info_ville,     \* value returned by get_city_data_full
  transac,        \* last call of get_transactions: outcome and rows received
  df_transac,     \* frame returned by get_transactions
  queries,        \* equality filters sent to the store by the dashboard
  kpi,            \* prix_m2_achat, loyer_m2_all, renta_brute, nb_transactions
  raised,         \* exception that left the script, "none" if there is none
  attempt,        \* get_ai_market_analysis: index of the current attempt
  sleep_time,     \* get_ai_market_analysis: last wait in seconds, 0 before any
  response,       \* get_ai_market_analysis: what the last POST gave
  posts,          \* POST requests sent to the generation API by the current run
  analysis_text   \* value returned by get_ai_market_analysis

dirVars == <<secrets, supabase, table, PAGE_SIZE, pc, now, runs, cache, call,
             offset, all_data, requests, ui, df_villes, selected_label,
             join_key_value>>

dirVars_but_pc == <<secrets, supabase, table, PAGE_SIZE, now, runs, cache, call,
                    offset, all_data, requests, df_villes, selected_label,
                    join_key_value>>

dashVars == <<detail, info_ville, transac, df_transac, queries, kpi, raised>>

aiVars == <<attempt, sleep_time, response, posts, analysis_text>>

vars == <<dirVars, dashVars, aiVars>>

SecretStates == {"absent", "placeholder", "valid"}

NoCache == [set |-> FALSE, time |-> 0, value |-> EmptyFrame]

\* delays between two runs of the script
Delays == {1, TTL - 1, TTL}

NoDetail == [outcome |-> "none", ret |-> None, msgs |-> <<>>, log |-> <<>>]
NoTransac == [outcome |-> "none", rows |-> <<>>]
NoKpi == [set |-> FALSE]

NoResponse == [kind |-> "none", text |-> ""]
NoText == "none"

AiInit ==
  /\ attempt = 0
  /\ sleep_time = 0
  /\ response = NoResponse
  /\ posts = 0
  /\ analysis_text = NoText

DashInit ==
  /\ detail = NoDetail
  /\ info_ville = None
  /\ transac = NoTransac
  /\ df_transac = EmptyFrame
  /\ queries = <<>>
  /\ kpi = NoKpi
  /\ raised = "none"

Init ==
  /\ secrets \in [url : SecretStates, key : SecretStates]
  /\ supabase = "unset"
  /\ table \in Tables
  /\ PAGE_SIZE \in 1..MaxPageSize
  /\ pc = "start"
  /\ now = 0
  /\ runs = 1
  /\ cache = NoCache
  /\ call = "none"
  /\ offset = 0
  /\ all_data = <<>>
  /\ requests = <<>>
  /\ ui = <<>>
  /\ df_villes = EmptyFrame
  /\ selected_label = <<>>
  /\ join_key_value = <<>>
  /\ DashInit
  /\ AiInit

(***************************************************************************)
(* init_connection (lines 26-45).                                           *)
(***************************************************************************)
Placeholder == "placeholder"

\* st.secrets.get(name, default): an absent secret reads as the placeholder
SecretGet(v) == IF v = "absent" THEN Placeholder ELSE v

\* faulty variant of ConfigMissing: both secrets must be missing
ConfigMissingBoth(sec) ==
  SecretGet(sec.url) = Placeholder /\ SecretGet(sec.key) = Placeholder

ConfigMissing(sec) ==
  SecretGet(sec.url) = Placeholder \/ SecretGet(sec.key) = Placeholder

\* created: whether create_client returned (TRUE) or raised (FALSE)
init_connection_result(sec, created) ==
  IF ConfigMissing(sec) THEN [client |-> "none", msgs |-> <<"error_config">>]
  ELSE IF created THEN [client |-> "client", msgs |-> <<>>]
  ELSE [client |-> "none", msgs |-> <<"error_connect">>]

init_connection ==
  /\ pc = "start"
  /\ \E created \in BOOLEAN :
       LET r == init_connection_result(secrets, created)
       IN /\ supabase' = r.client
          /\ ui' = ui \o r.msgs
  /\ pc' = "villes"
  /\ UNCHANGED <<secrets, table, PAGE_SIZE, now, runs, cache, call, offset,
                 all_data, requests, df_villes, selected_label, join_key_value>>
  /\ UNCHANGED dashVars
  /\ UNCHANGED aiVars

(***************************************************************************)
(* get_villes_list (lines 54-125), memoized by st.cache_data(ttl=3600).     *)
(***************************************************************************)
\* faulty variant of CacheFresh: a value exactly ttl seconds old is still served
CacheFreshInclusive(entry, t) == entry.set /\ t - entry.time <= TTL

\* the memoized value is served while it is younger than the ttl
CacheFresh(entry, t) == entry.set /\ t - entry.time < TTL

\* .range(offset, offset + PAGE_SIZE - 1), line 79
PageRange(off, size) == [from |-> off, to |-> off + size - 1]

\* faulty variant of IsLastPage: a full page ends the loop too
IsLastPageInclusive(page, size) == Len(page) <= size

\* len(current_page_data) < PAGE_SIZE, line 92
IsLastPage(page, size) == Len(page) < size

\* faulty variant of NextOffset: the next range starts on the last row of the page
NextOffsetOverlap(off, size) == off + size - 1

\* offset += PAGE_SIZE, line 96
NextOffset(off, size) == off + size

Request(off, size, outcome, n) ==
  [from |-> PageRange(off, size).from, to |-> PageRange(off, size).to,
   outcome |-> outcome, n |-> n]

\* the function leaves the loop: lines 105-125, and the memoization of the
\* returned frame
VillesReturn(data, msgs) ==
  /\ df_villes' = VillesFrame(data)
  /\ ui' = ui \o msgs \o VillesWarning(data)
  /\ cache' = [set |-> TRUE, time |-> now, value |-> VillesFrame(data)]
  /\ pc' = "sidebar"

\* cache hit: the body of the function does not run
get_villes_list_cached ==
  /\ pc = "villes"
  /\ CacheFresh(cache, now)
  /\ df_villes' = cache.value
  /\ call' = "hit"
  /\ requests' = <<>>
  /\ pc' = "sidebar"
  /\ UNCHANGED <<secrets, supabase, table, PAGE_SIZE, now, runs, cache, offset,
                 all_data, ui, selected_label, join_key_value>>
  /\ UNCHANGED dashVars
  /\ UNCHANGED aiVars

\* lines 60-61: no client, the empty frame is returned (and memoized)
get_villes_list_no_client ==
  /\ pc = "villes"
  /\ ~CacheFresh(cache, now)
  /\ supabase # "client"
  /\ df_villes' = EmptyFrame
  /\ cache' = [set |-> TRUE, time |-> now, value |-> EmptyFrame]
  /\ call' = "miss"
  /\ requests' = <<>>
  /\ pc' = "sidebar"
  /\ UNCHANGED <<secrets, supabase, table, PAGE_SIZE, now, runs, offset,
                 all_data, ui, selected_label, join_key_value>>
  /\ UNCHANGED dashVars
  /\ UNCHANGED aiVars

\* lines 63-69: the loop starts at offset 0 with nothing accumulated
get_villes_list_begin ==
  /\ pc = "villes"
  /\ ~CacheFresh(cache, now)
  /\ supabase = "client"
  /\ offset' = 0
  /\ all_data' = <<>>
  /\ requests' = <<>>
  /\ call' = "miss"
  /\ pc' = "page"
  /\ UNCHANGED <<secrets, supabase, table, PAGE_SIZE, now, runs, cache, ui,
                 df_villes, selected_label, join_key_value>>
  /\ UNCHANGED dashVars
  /\ UNCHANGED aiVars

\* lines 76-96: the request succeeds and returns rows
page_rows ==
  /\ pc = "page"
  /\ LET r == PageRange(offset, PAGE_SIZE)
         page == RangeRows(SelectVilles(table), r.from, r.to)
     IN /\ page # <<>>
        /\ requests' = Append(requests, Request(offset, PAGE_SIZE, "rows", Len(page)))
        /\ all_data' = all_data \o page
        /\ IF IsLastPage(page, PAGE_SIZE)
           THEN /\ VillesReturn(all_data \o page, <<>>)
                /\ UNCHANGED offset
           ELSE /\ offset' = NextOffset(offset, PAGE_SIZE)
                /\ UNCHANGED <<pc, ui, cache, df_villes>>
  /\ UNCHANGED <<secrets, supabase, table, PAGE_SIZE, now, runs, call,
                 selected_label, join_key_value>>
  /\ UNCHANGED dashVars
  /\ UNCHANGED aiVars

\* lines 84-86: the request succeeds and returns no row
page_empty ==
  /\ pc = "page"
  /\ LET r == PageRange(offset, PAGE_SIZE)
     IN RangeRows(SelectVilles(table), r.from, r.to) = <<>>
  /\ requests' = Append(requests, Request(offset, PAGE_SIZE, "empty", 0))
  /\ VillesReturn(all_data, <<>>)
  /\ UNCHANGED <<secrets, supabase, table, PAGE_SIZE, now, runs, call, offset,
                 all_data, selected_label, join_key_value>>
  /\ UNCHANGED dashVars
  /\ UNCHANGED aiVars

\* faulty variant of page_api_error: the error is shown and the loop goes on with the
\* same offset
page_api_error_retry ==
  /\ pc = "page"
  /\ requests' = Append(requests, Request(offset, PAGE_SIZE, "api_error", 0))
  /\ ui' = Append(ui, "error_villes_api")
  /\ UNCHANGED <<secrets, supabase, table, PAGE_SIZE, pc, now, runs, cache, call,
                 offset, all_data, df_villes, selected_label, join_key_value>>
  /\ UNCHANGED dashVars
  /\ UNCHANGED aiVars

\* lines 98-100: the request raises APIError
page_api_error ==
  /\ pc = "page"
  /\ requests' = Append(requests, Request(offset, PAGE_SIZE, "api_error", 0))
  /\ VillesReturn(all_data, <<"error_villes_api">>)
  /\ UNCHANGED <<secrets, supabase, table, PAGE_SIZE, now, runs, call, offset,
                 all_data, selected_label, join_key_value>>
  /\ UNCHANGED dashVars
  /\ UNCHANGED aiVars

\* lines 101-103: the request raises another exception
page_exception ==
  /\ pc = "page"
  /\ requests' = Append(requests, Request(offset, PAGE_SIZE, "exception", 0))
  /\ VillesReturn(all_data, <<"error_villes_unexpected">>)
  /\ UNCHANGED <<secrets, supabase, table, PAGE_SIZE, now, runs, call, offset,
                 all_data, selected_label, join_key_value>>
  /\ UNCHANGED dashVars
  /\ UNCHANGED aiVars

(***************************************************************************)
(* Sidebar (lines 308-336).                                                 *)
(***************************************************************************)
\* lines 315-317
sidebar_stop ==
  /\ pc = "sidebar"
  /\ df_villes = EmptyFrame
  /\ ui' = Append(ui, "error_stop")
  /\ pc' = "stopped"
  /\ UNCHANGED <<secrets, supabase, table, PAGE_SIZE, now, runs, cache, call,
                 offset, all_data, requests, df_villes, selected_label,
                 join_key_value>>
  /\ UNCHANGED dashVars
  /\ UNCHANGED aiVars

\* df_villes[df_villes['label'] == selected_label].iloc[0]
RowOfLabel(df, label) ==
  df[CHOOSE i \in 1..Len(df) :
       /\ df[i].label = label
       /\ \A j \in 1..(i - 1) : df[j].label # label]

\* lines 320-331: the user picks one of the labels
sidebar_select ==
  /\ pc = "sidebar"
  /\ df_villes # EmptyFrame
  /\ \E i \in 1..Len(df_villes) :
       /\ selected_label' = df_villes[i].label
       /\ join_key_value' = RowOfLabel(df_villes, df_villes[i].label)[JoinColumn]
  /\ pc' = "dashboard"
  /\ UNCHANGED <<secrets, supabase, table, PAGE_SIZE, now, runs, cache, call,
                 offset, all_data, requests, ui, df_villes>>
  /\ UNCHANGED dashVars
  /\ UNCHANGED aiVars

(***************************************************************************)
(* Dashboard (lines 342-383): the two fetches, then the metrics.  The test  *)
(* of line 342 holds for every key the sidebar can give: a key is text of   *)
(* five characters or more.                                                 *)
(***************************************************************************)
DetailQuery(key) == [table |-> "Dim_ville", column |-> JoinColumn, eq |-> JoinKeyStr(key)]

\* get_city_data_full, the request returns (lines 131-148, 153)
detail_returns ==
  /\ pc = "dashboard"
  /\ join_key_value # <<>>
  /\ IF supabase # "client"
     THEN /\ info_ville' = None
          /\ detail' = [outcome |-> "no_client", ret |-> None, msgs |-> <<>>, log |-> <<>>]
          /\ UNCHANGED queries
     ELSE LET rows == RowsWhereEq(table, JoinKeyStr(join_key_value))
          IN /\ info_ville' = FirstOrNone(rows)
             /\ detail' = [outcome |-> IF rows # <<>> THEN "rows" ELSE "empty",
                           ret |-> FirstOrNone(rows), msgs |-> <<>>, log |-> <<>>]
             /\ queries' = Append(queries, DetailQuery(join_key_value))
  /\ pc' = "transac"
  /\ UNCHANGED <<dirVars_but_pc, ui, transac, df_transac, kpi, raised>>
  /\ UNCHANGED aiVars

\* get_city_data_full, the request raises APIError (lines 150-153): a line
\* on stderr, nothing on the page, None returned
detail_api_error ==
  /\ pc = "dashboard"
  /\ join_key_value # <<>>
  /\ supabase = "client"
  /\ info_ville' = None
  /\ detail' = [outcome |-> "api_error", ret |-> None, msgs |-> <<>>,
                log |-> <<"Erreur get_city_data_full">>]
  /\ queries' = Append(queries, DetailQuery(join_key_value))
  /\ pc' = "transac"
  /\ UNCHANGED <<dirVars_but_pc, ui, transac, df_transac, kpi, raised>>
  /\ UNCHANGED aiVars

\* get_city_data_full, the request raises an exception that is no APIError:
\* no handler of the function catches it and the script ends on it
detail_exception ==
  /\ pc = "dashboard"
  /\ join_key_value # <<>>
  /\ supabase = "client"
  /\ detail' = [outcome |-> "exception", ret |-> None, msgs |-> <<>>, log |-> <<>>]
  /\ queries' = Append(queries, DetailQuery(join_key_value))
  /\ raised' = "get_city_data_full"
  /\ pc' = "crashed"
  /\ UNCHANGED <<dirVars_but_pc, ui, info_ville, transac, df_transac, kpi>>
  /\ UNCHANGED aiVars

TransacQuery(key) ==
  [table |-> "Fct_transaction_immo", column |-> JoinColumn, eq |-> JoinKeyStr(key)]

\* get_transactions, the request returns (lines 159-177, 186-204)
transactions_return ==
  /\ pc = "transac"
  /\ IF supabase # "client"
     THEN /\ df_transac' = EmptyFrame
          /\ transac' = [outcome |-> "no_client", rows |-> <<>>]
          /\ UNCHANGED queries
     ELSE \E rows \in TxResponses :
            /\ df_transac' = CleanTransactions(rows)
            /\ transac' = [outcome |-> "rows", rows |-> rows]
            /\ queries' = Append(queries, TransacQuery(join_key_value))
  /\ pc' = "kpi"
  /\ UNCHANGED <<dirVars_but_pc, ui, detail, info_ville, kpi, raised>>
  /\ UNCHANGED aiVars

\* get_transactions, the request raises APIError (lines 179-184)
transactions_api_error ==
  /\ pc = "transac"
  /\ supabase = "client"
  /\ df_transac' = EmptyFrame
  /\ transac' = [outcome |-> "api_error", rows |-> <<>>]
  /\ queries' = Append(queries, TransacQuery(join_key_value))
  /\ ui' = Append(ui, "error_transactions_api")
  /\ pc' = "kpi"
  /\ UNCHANGED <<dirVars_but_pc, detail, info_ville, kpi, raised>>
  /\ UNCHANGED aiVars

\* get_transactions, the request raises an exception that is no APIError
transactions_exception ==
  /\ pc = "transac"
  /\ supabase = "client"
  /\ transac' = [outcome |-> "exception", rows |-> <<>>]
  /\ queries' = Append(queries, TransacQuery(join_key_value))
  /\ raised' = "get_transactions"
  /\ pc' = "crashed"
  /\ UNCHANGED <<dirVars_but_pc, ui, detail, info_ville, df_transac, kpi>>
  /\ UNCHANGED aiVars

\* lines 352-383
compute_kpis ==
  /\ pc = "kpi"
  /\ LET prix == prix_m2_achat_of(df_transac)
         loyer == loyer_m2_all_of(info_ville)
         renta == renta_brute_of(prix, loyer)
     IN IF renta.ok
        THEN /\ kpi' = [set |-> TRUE, prix_m2_achat |-> prix, loyer_m2_all |-> loyer,
                        renta_brute |-> renta.val, nb_transactions |-> Len(df_transac)]
             /\ pc' = "render"
             /\ UNCHANGED raised
        ELSE /\ raised' = "ZeroDivisionError"
             /\ pc' = "crashed"
             /\ UNCHANGED kpi
  /\ UNCHANGED <<dirVars_but_pc, ui, detail, info_ville, transac, df_transac, queries>>
  /\ UNCHANGED aiVars

(***************************************************************************)
(* Rendering (lines 386-548) and get_ai_market_analysis (lines 230-303).    *)
(* The function is memoized for 600 seconds; the first call of a run of a   *)
(* fresh session, the one modelled here, executes its body.                 *)
(***************************************************************************)
MAX_RETRIES == 5

RECURSIVE Pow2(_)
Pow2(k) == IF k = 0 THEN 1 ELSE 2 * Pow2(k - 1)

\* text of the first part of the first candidate of an answer of the
\* generation API; "" is an answer with no text
AiTexts == {"", "Points Forts / Points Faibles"}

Unavailable == "Analyse IA indisponible (erreur de connexion ou de l'API)."
InternalError == "Analyse IA indisponible (erreur interne)."
NotGenerated == "Analyse IA non generee."

\* faulty variant of sleep_time_of: the wait grows linearly
sleep_time_linear(k) == 2 * k

\* line 288
sleep_time_of(k) == Pow2(k)

\* line 386
KpiBranch == info_ville.some \/ df_transac # EmptyFrame

\* line 477
AiWanted == RatLt(RatZero, kpi.prix_m2_achat) /\ RatLt(RatZero, kpi.loyer_m2_all)

\* lines 386-492: sections A and B, then section C up to the call of
\* get_ai_market_analysis or, without the two metrics, its placeholder
render_kpi ==
  /\ pc = "render"
  /\ KpiBranch
  /\ IF AiWanted
     THEN /\ ui' = Append(ui, "kpi_section")
          /\ pc' = "ai"
     ELSE /\ ui' = ui \o <<"kpi_section", "info_ai_pending">>
          /\ pc' = "charts"
  /\ UNCHANGED <<dirVars_but_pc, dashVars, aiVars>>

\* lines 544-548: the reference-data error and, under it, the notice about
\* transactions
render_error ==
  /\ pc = "render"
  /\ ~KpiBranch
  /\ ui' = ui \o <<"error_referentiel">> \o
             (IF df_transac # EmptyFrame THEN <<"info_transactions_found">> ELSE <<>>)
  /\ pc' = "done"
  /\ UNCHANGED <<dirVars_but_pc, dashVars, aiVars>>

\* the function returns text to line 478 and line 489 shows it
AiReturn(text, msgs) ==
  /\ analysis_text' = text
  /\ ui' = ui \o msgs \o <<"markdown_analysis">>
  /\ pc' = "charts"

\* lines 279-285: the POST succeeds and its answer holds text
ai_returns_text ==
  /\ pc = "ai"
  /\ \E t \in AiTexts \ {""} :
       /\ response' = [kind |-> "ok", text |-> t]
       /\ AiReturn(t, <<>>)
  /\ posts' = posts + 1
  /\ UNCHANGED <<dirVars_but_pc, dashVars, attempt, sleep_time>>

\* lines 279-284, 303: the POST succeeds with no text; the loop goes on to
\* the next attempt at once and after the last one the function returns
ai_empty_text ==
  /\ pc = "ai"
  /\ response' = [kind |-> "ok", text |-> ""]
  /\ posts' = posts + 1
  /\ IF attempt + 1 < MAX_RETRIES
     THEN /\ attempt' = attempt + 1
          /\ UNCHANGED <<pc, ui, analysis_text>>
     ELSE /\ AiReturn(NotGenerated, <<>>)
          /\ UNCHANGED attempt
  /\ UNCHANGED <<dirVars_but_pc, dashVars, sleep_time>>

\* lines 286-295: the POST, its status check or the decoding of its answer
\* raises a RequestException
ai_request_exception ==
  /\ pc = "ai"
  /\ response' = [kind |-> "request_exception", text |-> ""]
  /\ posts' = posts + 1
  /\ IF attempt < MAX_RETRIES - 1
     THEN /\ sleep_time' = sleep_time_of(attempt)
          /\ attempt' = attempt + 1
          /\ UNCHANGED <<pc, ui, analysis_text>>
     ELSE /\ AiReturn(Unavailable, <<"error_ai">>)
          /\ UNCHANGED <<attempt, sleep_time>>
  /\ UNCHANGED <<dirVars_but_pc, dashVars>>

\* lines 297-301: any other exception of the attempt
ai_exception ==
  /\ pc = "ai"
  /\ response' = [kind |-> "exception", text |-> ""]
  /\ posts' = posts + 1
  /\ AiReturn(InternalError, <<"error_ai_unexpected">>)
  /\ UNCHANGED <<dirVars_but_pc, dashVars, attempt, sleep_time>>

\* lines 496-541: sections D and E, or the notice that there is no
\* transaction
render_charts ==
  /\ pc = "charts"
  /\ ui' = Append(ui, IF df_transac # EmptyFrame THEN "charts" ELSE "info_no_transactions")
  /\ pc' = "done"
  /\ UNCHANGED <<dirVars_but_pc, dashVars, aiVars>>

\* a widget interaction or a reload runs the script again, some time later;
\* the client (st.cache_resource) and the memoized frame outlive the run
rerun ==
  /\ pc \in {"stopped", "dashboard", "render", "done", "crashed"}
  /\ runs < MaxRuns
  /\ \E d \in Delays : now' = now + d
  /\ runs' = runs + 1
  /\ pc' = "villes"
  /\ ui' = <<>>
  /\ call' = "none"
  /\ offset' = 0
  /\ all_data' = <<>>
  /\ requests' = <<>>
  /\ df_villes' = EmptyFrame
  /\ selected_label' = <<>>
  /\ join_key_value' = <<>>
  /\ detail' = NoDetail
  /\ info_ville' = None
  /\ transac' = NoTransac
  /\ df_transac' = EmptyFrame
  /\ queries' = <<>>
  /\ kpi' = NoKpi
  /\ raised' = "none"
  /\ attempt' = 0
  /\ sleep_time' = 0
  /\ response' = NoResponse
  /\ posts' = 0
  /\ analysis_text' = NoText
  /\ UNCHANGED <<secrets, supabase, table, PAGE_SIZE, cache>>

Next ==
  \/ init_connection
  \/ get_villes_list_cached
  \/ get_villes_list_no_client
  \/ get_villes_list_begin
  \/ page_rows
  \/ page_empty
  \/ page_api_error
  \/ page_exception
  \/ sidebar_stop
  \/ sidebar_select
  \/ rerun

Spec == Init /\ [][Next]_vars

(***************************************************************************)
(* Properties of the directory loader, checked under Spec.                  *)
(***************************************************************************)
Failed(req) == req.outcome \in {"api_error", "exception"}

\* the current run has executed the loop of get_villes_list to its end
LoopDone == call = "miss" /\ supabase = "client" /\ pc \in {"sidebar", "stopped", "dashboard"}

NoFailure == \A i \in DOMAIN requests : ~Failed(requests[i])

CeilDiv(n, p) == (n + p - 1) \div p

\* C1 as stated: with no failed request, one call of the loader issues exactly
\* ceil(N/P) page requests, for every N >= 0.
C1_CeilPages ==
  (LoopDone /\ NoFailure) => Len(requests) = CeilDiv(Len(table), PAGE_SIZE)

\* C1 amended: with no failed request, one call of the loader issues exactly
\* floor(N/P) + 1 page requests and then stops; that is ceil(N/P) when N is
\* not a multiple of P, and one request more (the last one returns an empty
\* page) when N is a multiple of P, N = 0 included.
C1_FloorPlusOnePages ==
  (LoopDone /\ NoFailure) =>
    /\ Len(requests) = (Len(table) \div PAGE_SIZE) + 1
    /\ (Len(table) % PAGE_SIZE # 0 => Len(requests) = CeilDiv(Len(table), PAGE_SIZE))
    /\ (Len(table) % PAGE_SIZE = 0 =>
          /\ Len(requests) = CeilDiv(Len(table), PAGE_SIZE) + 1
          /\ requests[Len(requests)].outcome = "empty")

C1_Witness ==
  /\ LoopDone /\ NoFailure
  /\ Len(table) > 0
  /\ Len(table) % PAGE_SIZE = 0
  /\ Len(requests) = (Len(table) \div PAGE_SIZE) + 1

\* C2: the requested ranges are [0,P-1], [P,2P-1], ... in this order; every
\* page before the last one is full; and when no request fails the loop ends
\* at the first page that is empty or shorter than P, with exactly the rows
\* of the table accumulated, each once and in order.
C2_PagesPartitionTable ==
  /\ \A i \in DOMAIN requests :
       /\ requests[i].from = (i - 1) * PAGE_SIZE
       /\ requests[i].to = i * PAGE_SIZE - 1
       /\ (i < Len(requests) => requests[i].n = PAGE_SIZE)
  /\ (pc = "page" => \A i \in DOMAIN requests : requests[i].n = PAGE_SIZE)
  /\ (LoopDone /\ NoFailure) =>
       /\ all_data = SelectVilles(table)
       /\ requests[Len(requests)].n < PAGE_SIZE

C2_Witness ==
  /\ LoopDone /\ NoFailure
  /\ Len(requests) >= 2
  /\ requests[Len(requests)].n > 0
  /\ all_data = SelectVilles(table)

ErrorsShown(msgs) ==
  Cardinality({ i \in DOMAIN msgs : msgs[i] \in {"error_villes_api", "error_villes_unexpected"} })

\* C3: a failed page request is the last request of its call (no retry, no
\* further page), shows exactly one error, and the call returns the frame of
\* the rows of the pages before it, the empty frame when it is the first page.
C3_FailureStopsLoader ==
  /\ \A i \in DOMAIN requests : Failed(requests[i]) => i = Len(requests)
  /\ (pc = "page" => NoFailure /\ ErrorsShown(ui) = 0)
  /\ (LoopDone /\ ~NoFailure) =>
       LET k == Len(requests) - 1
       IN /\ ErrorsShown(ui) = 1
          /\ k * PAGE_SIZE <= Len(table)
          /\ all_data = SubSeq(SelectVilles(table), 1, k * PAGE_SIZE)
          /\ df_villes = VillesFrame(SubSeq(SelectVilles(table), 1, k * PAGE_SIZE))
          /\ (k = 0 => df_villes = EmptyFrame)
  /\ (LoopDone /\ NoFailure) => ErrorsShown(ui) = 0

C3_Witness ==
  /\ LoopDone
  /\ Len(requests) = 2
  /\ requests[2].outcome = "api_error"
  /\ df_villes # EmptyFrame
  /\ Len(table) > PAGE_SIZE

\* C7 as stated: every join key and INSEE code of the frame returned by the
\* loader has exactly 5 characters.
C7_ExactlyFiveChars ==
  \A i \in DOMAIN df_villes :
    /\ Len(df_villes[i].code_postal) = 5
    /\ Len(df_villes[i].code_insee) = 5

\* C8: a call of get_villes_list made less than TTL seconds after the frame
\* was memoized returns the memoized frame and issues no page request; a call
\* made when no frame is memoized or TTL seconds or more after runs the body
\* again, which with a client starts the loop at offset 0 with no row kept.
C8_CacheWindow ==
  [][(pc = "villes" /\ pc' # "villes") =>
       IF cache.set /\ now - cache.time < 3600
       THEN /\ pc' = "sidebar"
            /\ requests' = <<>>
            /\ df_villes' = cache.value
            /\ cache' = cache
       ELSE /\ (supabase = "client" =>
                  pc' = "page" /\ offset' = 0 /\ all_data' = <<>> /\ requests' = <<>>)
            /\ (supabase # "client" => cache'.time = now)]_vars

C8_Witness ==
  /\ call = "hit"
  /\ pc = "sidebar"
  /\ now - cache.time = 3599
  /\ requests = <<>>
  /\ df_villes = cache.value
  /\ df_villes # EmptyFrame

\* C9: with the URL or the key absent or left as the placeholder, no client
\* is created and a configuration error is shown; no page request is issued,
\* the loader returns the empty frame, and the script stops in the sidebar
\* with no commune selected.
C9_MissingConfigStops ==
  (secrets.url \in {"absent", "placeholder"} \/ secrets.key \in {"absent", "placeholder"}) =>
    /\ (pc # "start" => supabase = "none")
    /\ (pc = "villes" /\ runs = 1 => ui = <<"error_config">>)
    /\ pc \notin {"page", "dashboard"}
    /\ requests = <<>>
    /\ all_data = <<>>
    /\ df_villes = EmptyFrame
    /\ selected_label = <<>>
    /\ join_key_value = <<>>
    /\ (pc = "stopped" => ui[Len(ui)] = "error_stop")

C9_Witness ==
  /\ secrets.url = "valid"
  /\ secrets.key = "absent"
  /\ pc = "stopped"
  /\ supabase = "none"
  /\ runs = 1
  /\ ui = <<"error_config", "error_stop">>

\* the join key of a fetched row once normalized (line 113)
KeyOfFetched(r) == zfill(PyStr(r[JoinColumn]), 5)

\* the first fetched row with the name and the normalized key of row i
FirstFetched(i) ==
  CHOOSE k \in DOMAIN all_data :
    /\ all_data[k].nom_commune = all_data[i].nom_commune
    /\ KeyOfFetched(all_data[k]) = KeyOfFetched(all_data[i])
    /\ \A j \in 1..(k - 1) :
         ~(/\ all_data[j].nom_commune = all_data[i].nom_commune
           /\ KeyOfFetched(all_data[j]) = KeyOfFetched(all_data[i]))

\* C11: the frame returned by the loader after its loop holds no two records
\* with the same name and normalized join key, holds for every name and
\* normalized key of the fetched rows one record, which is the one of the
\* first such row in fetch order, and is sorted by name in ascending order.
C11_UniqueCoveringSorted ==
  LoopDone =>
    /\ \A i, j \in DOMAIN df_villes :
         (/\ df_villes[i].nom_commune = df_villes[j].nom_commune
          /\ df_villes[i].code_postal = df_villes[j].code_postal) => i = j
    /\ \A i \in DOMAIN all_data :
         \E j \in DOMAIN df_villes :
           /\ df_villes[j].nom_commune = all_data[i].nom_commune
           /\ df_villes[j].code_postal = KeyOfFetched(all_data[i])
           /\ df_villes[j].code_insee =
                zfill(PyStr(all_data[FirstFetched(i)].code_insee), 5)
    /\ \A j \in DOMAIN df_villes :
         \E i \in DOMAIN all_data :
           /\ df_villes[j].nom_commune = all_data[i].nom_commune
           /\ df_villes[j].code_postal = KeyOfFetched(all_data[i])
    /\ \A i \in 1..(Len(df_villes) - 1) :
         StrLeq(df_villes[i].nom_commune, df_villes[i + 1].nom_commune)

\* two fetched rows of one name and one normalized key with different INSEE
\* codes, of which the frame keeps the first, and a second name after it
C11_Witness ==
  /\ LoopDone
  /\ Len(df_villes) < Len(all_data)
  /\ \E i, k \in DOMAIN all_data :
       /\ i < k
       /\ all_data[i].nom_commune = all_data[k].nom_commune
       /\ KeyOfFetched(all_data[i]) = KeyOfFetched(all_data[k])
       /\ all_data[i].code_insee # all_data[k].code_insee
       /\ \E j \in DOMAIN df_villes :
            df_villes[j].code_insee = zfill(PyStr(all_data[i].code_insee), 5)
  /\ \E i, j \in DOMAIN df_villes :
       i < j /\ df_villes[i].nom_commune # df_villes[j].nom_commune

(***************************************************************************)
(* One run of the script on a table of at most MaxDashRows rows, with the   *)
(* secrets present: the fetches, the metrics and the rendering, up to the   *)
(* call of get_ai_market_analysis where section C makes it.                 *)
(***************************************************************************)
InitDash ==
  /\ secrets = [url |-> "valid", key |-> "valid"]
  /\ supabase = "unset"
  /\ table \in TablesUpTo(MaxDashRows)
  /\ PAGE_SIZE = MaxPageSize
  /\ pc = "start"
  /\ now = 0
  /\ runs = 1
  /\ cache = NoCache
  /\ call = "none"
  /\ offset = 0
  /\ all_data = <<>>
  /\ requests = <<>>
  /\ ui = <<>>
  /\ df_villes = EmptyFrame
  /\ selected_label = <<>>
  /\ join_key_value = <<>>
  /\ DashInit
  /\ AiInit

NextDash ==
  \/ init_connection
  \/ get_villes_list_no_client
  \/ get_villes_list_begin
  \/ page_rows
  \/ page_empty
  \/ page_api_error
  \/ page_exception
  \/ sidebar_stop
  \/ sidebar_select
  \/ detail_returns
  \/ detail_api_error
  \/ detail_exception
  \/ transactions_return
  \/ transactions_api_error
  \/ transactions_exception
  \/ compute_kpis
  \/ render_kpi
  \/ render_error
  \/ render_charts

SpecDash == InitDash /\ [][NextDash]_vars

(***************************************************************************)
(* Properties of the dashboard fetches and metrics, checked under SpecDash. *)
(***************************************************************************)
\* what the caller of get_city_data_full has in hand after the call: the
\* returned value and the messages put on the page (stderr is not among them)
DetailObservation == [ret |-> detail.ret, msgs |-> detail.msgs]

\* the observation of a well-formed query that matched no row
NotFoundObservation == [ret |-> None, msgs |-> <<>>]

\* C4 as stated: a query of get_city_data_full that fails at the store leaves
\* its caller with something else than a query that matched no row does.
C4_FailureDistinctFromNotFound ==
  /\ (detail.outcome = "empty" => DetailObservation = NotFoundObservation)
  /\ (detail.outcome = "api_error" => DetailObservation # NotFoundObservation)

\* C5 as stated: no error of a remote request leaves a fetch function as an
\* exception; the script never ends on one.
C5_NoRawException ==
  /\ raised \notin {"get_villes_list", "get_city_data_full", "get_transactions"}
  /\ (detail.outcome = "exception" => pc # "crashed")
  /\ (transac.outcome = "exception" => pc # "crashed")

Unparseable(raw) ==
  \/ ~to_datetime(raw.date_mutation).ok
  \/ ~to_numeric(raw.valeur_fonciere).ok
  \/ ~to_numeric(raw.surface_reelle_bati).ok

\* C6: the cleaned frame holds rows of the answer of the store, each at most
\* once and in their order, so never more rows than the answer; every row of
\* it has a date of the calendar, a price and a surface that are numbers,
\* prix_m2 = price / surface and 500 < prix_m2 < 30000; no row of the answer
\* with a date or a number that cannot be read is in it.
C6_CleaningNarrows ==
  transac.outcome = "rows" =>
    /\ Len(df_transac) <= Len(transac.rows)
    /\ \A i \in DOMAIN df_transac :
         LET o == df_transac[i]
         IN /\ o.idx \in DOMAIN transac.rows
            /\ (i > 1 => df_transac[i - 1].idx < o.idx)
            /\ ~Unparseable(transac.rows[o.idx])
            /\ o.date_mutation = to_datetime(transac.rows[o.idx].date_mutation).val
            /\ o.date_mutation.month \in 1..12
            /\ o.date_mutation.day \in 1..31
            /\ o.valeur_fonciere = to_numeric(transac.rows[o.idx].valeur_fonciere).val
            /\ o.surface_reelle_bati = to_numeric(transac.rows[o.idx].surface_reelle_bati).val
            /\ o.surface_reelle_bati.n # 0
            /\ RatMul(o.prix_m2, o.surface_reelle_bati) = o.valeur_fonciere
            /\ 500 * o.prix_m2.d < o.prix_m2.n
            /\ o.prix_m2.n < 30000 * o.prix_m2.d
    /\ \A j \in DOMAIN transac.rows :
         Unparseable(transac.rows[j]) => \A i \in DOMAIN df_transac : df_transac[i].idx # j

C6_Witness ==
  /\ transac.outcome = "rows"
  /\ pc = "kpi"
  /\ Len(transac.rows) = 3
  /\ Len(df_transac) = 1
  /\ \E j \in DOMAIN transac.rows : Unparseable(transac.rows[j])
  /\ \E j \in DOMAIN transac.rows :
       ~Unparseable(transac.rows[j]) /\ \A i \in DOMAIN df_transac : df_transac[i].idx # j

\* C10: renta_brute = (loyer_m2_all * 12 / prix_m2_achat) * 100 when both are
\* positive and 0 otherwise; no cleaned transaction gives prix_m2_achat = 0
\* and renta_brute = 0 without a division error; 2000 and 10 give 6.
C10_GrossYield ==
  /\ raised # "ZeroDivisionError"
  /\ (pc = "render" => kpi.set)
  /\ kpi.set =>
       LET p == kpi.prix_m2_achat
           l == kpi.loyer_m2_all
           r == kpi.renta_brute
       IN /\ (df_transac = EmptyFrame => p = RatZero)
          /\ ((p.n > 0 /\ l.n > 0) =>
                r.n * p.n * l.d = 1200 * l.n * p.d * r.d)
          /\ (~(p.n > 0 /\ l.n > 0) => r = RatZero)
          /\ (p = RatZero => r = RatZero)
          /\ ((p = RatInt(2000) /\ l = RatInt(10)) => r = RatInt(6))

C10_Witness ==
  /\ pc = "render"
  /\ kpi.set
  /\ kpi.prix_m2_achat = RatInt(2000)
  /\ kpi.loyer_m2_all = RatInt(10)
  /\ kpi.renta_brute = RatInt(6)

C10_WitnessZero ==
  /\ pc = "render"
  /\ kpi.set
  /\ kpi.prix_m2_achat = RatZero
  /\ kpi.loyer_m2_all.n > 0
  /\ kpi.renta_brute = RatZero

\* the message is on the page of the current run
Shown(msg) == \E i \in DOMAIN ui : ui[i] = msg

\* the run is past the line that follows the two fetches
PastFetches == pc \in {"kpi", "render", "ai", "charts", "done", "crashed"}

\* for one selection the detail fetch and then the transaction fetch are
\* performed, whatever the first one gave
FetchesBothPerformed ==
  /\ (pc = "transac" => detail.outcome # "none" /\ transac.outcome = "none")
  /\ (join_key_value # <<>> /\ PastFetches) =>
       /\ detail.outcome # "none"
       /\ transac.outcome # "none"
       /\ queries = <<DetailQuery(join_key_value), TransacQuery(join_key_value)>>

\* the branch of line 386 and the one of line 544
RenderBranches ==
  /\ Shown("error_referentiel") => (~info_ville.some /\ df_transac = EmptyFrame)
  /\ (pc \in {"ai", "charts", "done"} /\ ~info_ville.some /\ df_transac # EmptyFrame) =>
       (Shown("kpi_section") /\ ~Shown("error_referentiel"))
  /\ (pc = "done" /\ ~info_ville.some /\ df_transac = EmptyFrame) =>
       (Shown("error_referentiel") /\ ~Shown("kpi_section"))
  /\ ~Shown("info_transactions_found")

\* C13 as stated: for one selection both fetches are always performed, the
\* detail fetch first, whatever it gave; the reference-data error is shown
\* only when the detail fetch returned nothing and the cleaned transaction
\* frame is empty; with no detail but transactions the KPI section is
\* rendered; and the notice nested under the error is never shown.
C13_FetchesAndBranches == FetchesBothPerformed /\ RenderBranches

(***************************************************************************)
(* One run of the script that reaches the call of get_ai_market_analysis    *)
(* and goes through it: the communes of the table, if any, have a rent.     *)
(* Every POST is made with timeout=30 (line 279), so an attempt that has    *)
(* started ends, by an answer or by an exception: the steps of the loop     *)
(* are fair.                                                                *)
(***************************************************************************)
AiTables ==
  { t \in TablesUpTo(1) :
      \A i \in DOMAIN t : t[i].loypredm2 = TxtStr(<<"1", "2", ",", "5">>) }

InitAI ==
  /\ secrets = [url |-> "valid", key |-> "valid"]
  /\ supabase = "unset"
  /\ table \in AiTables
  /\ PAGE_SIZE = MaxPageSize
  /\ pc = "start"
  /\ now = 0
  /\ runs = 1
  /\ cache = NoCache
  /\ call = "none"
  /\ offset = 0
  /\ all_data = <<>>
  /\ requests = <<>>
  /\ ui = <<>>
  /\ df_villes = EmptyFrame
  /\ selected_label = <<>>
  /\ join_key_value = <<>>
  /\ DashInit
  /\ AiInit

\* one attempt of the loop of lines 277-301
AiAttempt ==
  \/ ai_returns_text
  \/ ai_empty_text
  \/ ai_request_exception
  \/ ai_exception

NextAI ==
  \/ init_connection
  \/ get_villes_list_no_client
  \/ get_villes_list_begin
  \/ page_rows
  \/ page_empty
  \/ page_api_error
  \/ page_exception
  \/ sidebar_stop
  \/ sidebar_select
  \/ detail_returns
  \/ detail_api_error
  \/ detail_exception
  \/ transactions_return
  \/ transactions_api_error
  \/ transactions_exception
  \/ compute_kpis
  \/ render_kpi
  \/ render_error
  \/ ai_returns_text
  \/ ai_empty_text
  \/ ai_request_exception
  \/ ai_exception
  \/ render_charts

SpecAI == InitAI /\ [][NextAI]_vars /\ WF_vars(AiAttempt)

(***************************************************************************)
(* Properties of get_ai_market_analysis, checked under SpecAI.              *)
(***************************************************************************)
\* C12: one call makes at most MAX_RETRIES = 5 POSTs; an attempt k < 4 whose
\* request fails waits 2^k seconds and goes on to attempt k + 1; a failed
\* request on attempt 4 returns the "unavailable" text with no wait; any
\* other exception returns "internal error" at once; an attempt whose answer
\* holds text returns that text; and a call that has started ends with a
\* returned text.
C12_BoundedRetries ==
  /\ [](/\ posts <= 5
        /\ (pc = "ai" => attempt < 5 /\ posts = attempt /\ analysis_text = NoText))
  /\ [][pc = "ai" =>
          /\ posts' = posts + 1
          /\ (pc' = "ai" => attempt' = attempt + 1)
          /\ ((response'.kind = "request_exception" /\ attempt < 4) =>
                /\ sleep_time' = Pow2(attempt)
                /\ attempt' = attempt + 1
                /\ pc' = "ai")
          /\ ((response'.kind = "request_exception" /\ attempt = 4) =>
                /\ analysis_text' = Unavailable
                /\ sleep_time' = sleep_time
                /\ pc' # "ai")
          /\ (response'.kind = "exception" =>
                /\ analysis_text' = InternalError
                /\ sleep_time' = sleep_time
                /\ pc' # "ai")
          /\ ((response'.kind = "ok" /\ response'.text # "") =>
                /\ analysis_text' = response'.text
                /\ pc' # "ai")]_vars
  /\ (pc = "ai") ~> (pc # "ai" /\ analysis_text # NoText)

\* four failed requests waited 1, 2, 4 and 8 seconds, the fifth failed too
\* and the call returned the "unavailable" text
C12_Witness ==
  /\ posts = 5
  /\ attempt = 4
  /\ sleep_time = 8
  /\ response.kind = "request_exception"
  /\ analysis_text = Unavailable
  /\ pc # "ai"

\* the third attempt is the first to give text, after two failed requests
C12_WitnessText ==
  /\ posts = 3
  /\ sleep_time = 2
  /\ response.kind = "ok"
  /\ analysis_text = response.text
  /\ analysis_text # ""
  /\ pc # "ai"

====
